---- MODULE Spec2Model ----
(***************************************************************************)
(* Reference resolution of src/resolve.rs: ReferenceOr<T>::resolve,         *)
(* Option<ReferenceOr<T>>::resolve, OpenAPI::resolve (resolve_root_optional),*)
(* Components::resolve (resolve_with_openapi) and IndexMap::resolve         *)
(* (resolve_with_openapi_index_map).  Strings are sequences of one-character*)
(* strings, so that strip_prefix, split_once and the comparison with the    *)
(* stringify!-ed field names are computed character by character.           *)
(***************************************************************************)
EXTENDS Naturals, Sequences, FiniteSets

VARIABLES openapi, ty, ptr, pc, path, pointer, depth, visited, result, entry, ret

vars == <<openapi, ty, ptr, pc, path, pointer, depth, visited, result, entry, ret>>

(* ----------------------------- strings --------------------------------- *)

Slash == "/"

HashSlash == <<"#", "/">>

components == <<"c","o","m","p","o","n","e","n","t","s">>

callbacks == <<"c","a","l","l","b","a","c","k","s">>

examples == <<"e","x","a","m","p","l","e","s">>

headers == <<"h","e","a","d","e","r","s">>

links == <<"l","i","n","k","s">>

parameters == <<"p","a","r","a","m","e","t","e","r","s">>

request_bodies == <<"r","e","q","u","e","s","t","_","b","o","d","i","e","s">>

responses == <<"r","e","s","p","o","n","s","e","s">>

schemas == <<"s","c","h","e","m","a","s">>

security_schemes == <<"s","e","c","u","r","i","t","y","_","s","c","h","e","m","e","s">>

(* The entity types T for which the three macros are invoked. *)
Types ==
  {"Callback", "Example", "Header", "Link", "Parameter", "RequestBody",
   "Response", "Schema", "SecurityScheme"}

(* The fields of Components that hold an IndexMap<String, ReferenceOr<T>>. *)
Fields ==
  {"callbacks", "examples", "headers", "links", "parameters", "request_bodies",
   "responses", "schemas", "security_schemes"}

(* resolve_with_openapi!(Components, <field>, <T>): the field bound to T. *)
FieldOf(t) ==
  CASE t = "Callback" -> "callbacks"
    [] t = "Example" -> "examples"
    [] t = "Header" -> "headers"
    [] t = "Link" -> "links"
    [] t = "Parameter" -> "parameters"
    [] t = "RequestBody" -> "request_bodies"
    [] t = "Response" -> "responses"
    [] t = "Schema" -> "schemas"
    [] t = "SecurityScheme" -> "security_schemes"

(* stringify!($property_name): the identifier of the field, letter by letter. *)
Stringify(f) ==
  CASE f = "callbacks" -> callbacks
    [] f = "examples" -> examples
    [] f = "headers" -> headers
    [] f = "links" -> links
    [] f = "parameters" -> parameters
    [] f = "request_bodies" -> request_bodies
    [] f = "responses" -> responses
    [] f = "schemas" -> schemas
    [] f = "security_schemes" -> security_schemes

(* ------------------------- values of the data model -------------------- *)

(* Option<&T>: None, or Some(item). Items are positive numbers. *)
None == [some |-> FALSE, item |-> 0]

Some(x) == [some |-> TRUE, item |-> x]

(* ReferenceOr<T>::Item(item) and ReferenceOr<T>::Reference { reference }. *)
Item(x) == [tag |-> "Item", item |-> x, reference |-> <<>>]

Reference(s) == [tag |-> "Reference", item |-> 0, reference |-> s]

(* Option<ReferenceOr<T>>: NoNode is None, any other node n is Some(n). *)
NoNode == [tag |-> "None", item |-> 0, reference |-> <<>>]

(* A slip: str::trim_start_matches, which leaves a string without the       *)
(* prefix as it is instead of reporting no match.                           *)
TrimStartMatches(s, p) ==
  IF Len(s) >= Len(p) /\ SubSeq(s, 1, Len(p)) = p
    THEN [ok |-> TRUE, rest |-> SubSeq(s, Len(p) + 1, Len(s))]
    ELSE [ok |-> TRUE, rest |-> s]

(* str::strip_prefix: the rest after the prefix, or no match. *)
StripPrefix(s, p) ==
  IF Len(s) >= Len(p) /\ SubSeq(s, 1, Len(p)) = p
    THEN [ok |-> TRUE, rest |-> SubSeq(s, Len(p) + 1, Len(s))]
    ELSE [ok |-> FALSE, rest |-> <<>>]

(* A slip: str::rsplit_once, which splits at the LAST occurrence. *)
RSplitOnce(s, c) ==
  LET hits == {i \in 1..Len(s) : s[i] = c}
  IN IF hits = {}
       THEN [ok |-> FALSE, head |-> <<>>, tail |-> <<>>]
       ELSE LET i == CHOOSE j \in hits : \A k \in hits : j >= k
            IN [ok |-> TRUE, head |-> SubSeq(s, 1, i - 1),
                tail |-> SubSeq(s, i + 1, Len(s))]

(* str::split_once: split at the FIRST occurrence of the delimiter. *)
SplitOnce(s, c) ==
  LET hits == {i \in 1..Len(s) : s[i] = c}
  IN IF hits = {}
       THEN [ok |-> FALSE, head |-> <<>>, tail |-> <<>>]
       ELSE LET i == CHOOSE j \in hits : \A k \in hits : j <= k
            IN [ok |-> TRUE, head |-> SubSeq(s, 1, i - 1),
                tail |-> SubSeq(s, i + 1, Len(s))]

(* A slip: a key that is absent falls back to the entry of its first        *)
(* segment, a descent into a sub-path.                                      *)
GetBySegment(m, k) ==
  LET first == IF \E i \in 1..Len(k) : k[i] = "/"
                 THEN SubSeq(k, 1, (CHOOSE i \in 1..Len(k) :
                        k[i] = "/" /\ \A j \in 1..(i - 1) : k[j] # "/") - 1)
                 ELSE k
  IN IF k \in DOMAIN m THEN m[k]
     ELSE IF first \in DOMAIN m THEN m[first]
     ELSE [tag |-> "None", item |-> 0, reference |-> <<>>]

(* IndexMap::get: the entry stored under exactly this key, if any. *)
IndexMapGet(m, k) == IF k \in DOMAIN m THEN m[k] ELSE NoNode

(* ------------------- the five resolve functions ------------------------ *)

(* What a function body does next: return a result, or call the next level. *)
Return(r) == [pc |-> "done", path |-> <<>>, result |-> r]

Call(level, p) == [pc |-> level, path |-> p, result |-> None]

(* A slip: the inline item is not handed back. *)
ReferenceOrItemLost(node) ==
  IF node.tag = "Reference"
    THEN Call("openapi", node.reference)
    ELSE Return(None)

(* A slip: the reference is not followed. *)
ReferenceOrNotFollowed(node) ==
  IF node.tag = "Reference"
    THEN Return(None)
    ELSE Return(Some(node.item))

(* impl ResolveWithOpenAPI<T> for ReferenceOr<T> *)
ReferenceOrResolve(node) ==
  IF node.tag = "Reference"
    THEN Call("openapi", node.reference)
    ELSE Return(Some(node.item))

(* impl ResolveWithOpenAPI<T> for Option<ReferenceOr<T>>: self.as_ref()? *)
OptionResolve(opt) ==
  IF opt = NoNode THEN Return(None) ELSE ReferenceOrResolve(opt)

(* resolve_root_optional!(components, T): impl Resolve<T> for OpenAPI *)
OpenAPIResolve(doc, p) ==
  LET stripped == StripPrefix(p, HashSlash)
      split == SplitOnce(stripped.rest, Slash)
  IN IF ~stripped.ok THEN Return(None)
     ELSE IF ~split.ok THEN Return(None)
     ELSE IF split.head = components
       THEN IF ~doc.components.some THEN Return(None)
            ELSE Call("components", split.tail)
       ELSE Return(None)

(* resolve_with_openapi!(Components, field, T) *)
ComponentsResolve(t, p) ==
  LET split == SplitOnce(p, Slash)
  IN IF ~split.ok THEN Return(None)
     ELSE IF split.head = Stringify(FieldOf(t))
       THEN Call("indexmap", split.tail)
       ELSE Return(None)

(* resolve_with_openapi_index_map!(T) *)
IndexMapResolve(m, p) ==
  LET e == IndexMapGet(m, p)
  IN IF e = NoNode THEN Return(None)
     ELSE IF e.tag = "Reference" THEN Call("openapi", e.reference)
     ELSE Return(Some(e.item))

(* self.$property_name of the Components of the document, for type t. *)
CategoryMap(doc, t) == doc.components.fields[FieldOf(t)]

(* ------------------------- documents and inputs ------------------------ *)

(* Nested OpenAPI::resolve frames the call stack holds before the process   *)
(* aborts with a stack overflow.                                            *)
StackLimit == 6

Items == {1, 2}

ka == <<"a">>

kb == <<"b">>

kax == <<"a", "/", "x">>

Keys == {ka, kb, kax}

requestBodies == <<"r","e","q","u","e","s","t","B","o","d","i","e","s">>

securitySchemes == <<"s","e","c","u","r","i","t","y","S","c","h","e","m","e","s">>

(* The category segment of a pointer to an entity of type t, as documents   *)
(* write it: the camelCase name of the Components field.                    *)
CategoryLiteral(t) ==
  CASE t = "RequestBody" -> requestBodies
    [] t = "SecurityScheme" -> securitySchemes
    [] OTHER -> Stringify(FieldOf(t))

(* "#/" root "/" category "/" name *)
Pointer(root, cat, name) == HashSlash \o root \o <<Slash>> \o cat \o <<Slash>> \o name

Ptr(cat, name) == Pointer(components, cat, name)

(* Another entity type, whose category map the document also fills. *)
OtherType(t) == IF t = "Schema" THEN "Response" ELSE "Schema"

(* The same letter in upper case, for the first letters of the literals. *)
Upper(c) ==
  CASE c = "c" -> "C" [] c = "e" -> "E" [] c = "h" -> "H" [] c = "l" -> "L"
    [] c = "p" -> "P" [] c = "r" -> "R" [] c = "s" -> "S" [] OTHER -> c

Capitalised(s) == <<Upper(Head(s))>> \o Tail(s)

(* The pointer strings a caller resolves at type t. *)
Pointers(t) ==
  { Ptr(CategoryLiteral(t), ka),
    Ptr(CategoryLiteral(t), kax),
    Ptr(Stringify(FieldOf(t)), ka),
    Ptr(CategoryLiteral(OtherType(t)), ka),
    Ptr(Capitalised(CategoryLiteral(t)), ka),
    Ptr(<<"f", "o", "o">>, ka),
    components \o <<Slash>> \o CategoryLiteral(t) \o <<Slash>> \o ka,
    HashSlash \o components,
    Pointer(<<"p", "a", "t", "h", "s">>, CategoryLiteral(t), ka),
    HashSlash \o components \o <<Slash>> \o CategoryLiteral(t) }

(* The references an entry of the category map of t may store. *)
StoredPointers(t) ==
  { Ptr(CategoryLiteral(t), k) : k \in Keys }
    \cup { Ptr(Stringify(FieldOf(t)), kb),
           Ptr(CategoryLiteral(OtherType(t)), ka),
           components \o <<Slash>> \o CategoryLiteral(t) \o <<Slash>> \o kb }

Absent == [tag |-> "Absent", item |-> 0, reference |-> <<>>]

EntryChoices(t) ==
  {Absent} \cup {Item(x) : x \in Items} \cup {Reference(s) : s \in StoredPointers(t)}

EmptyMap == [k \in {} |-> Absent]

MapOf(f) == [k \in {j \in DOMAIN f : f[j] # Absent} |-> f[k]]

CategoryMaps(t) ==
  { MapOf([k \in Keys |-> IF k = ka THEN ea ELSE IF k = kb THEN eb ELSE ex]) :
      ea \in EntryChoices(t), eb \in EntryChoices(t), ex \in EntryChoices(t) }

NoComponents == [some |-> FALSE, fields |-> [f \in Fields |-> EmptyMap]]

(* What the document holds in the category map of the other type. *)
OtherMaps == {EmptyMap} \cup {MapOf([k \in {ka} |-> Item(x)]) : x \in Items}

ComponentsOf(t, m, o) ==
  [some |-> TRUE,
   fields |-> [f \in Fields |->
                 IF f = FieldOf(t) THEN m
                 ELSE IF f = FieldOf(OtherType(t)) THEN o
                 ELSE EmptyMap]]

Documents(t) ==
  {[components |-> NoComponents]}
    \cup {[components |-> ComponentsOf(t, m, o)] : m \in CategoryMaps(t), o \in OtherMaps}

NoEntry == [kind |-> "none", node |-> NoNode]

Unset == [set |-> FALSE, result |-> None]

(* ------------------------------ actions -------------------------------- *)

Init ==
  /\ ty \in Types
  /\ openapi \in Documents(ty)
  /\ ptr \in Pointers(ty)
  /\ pc = "idle"
  /\ path = <<>>
  /\ pointer = <<>>
  /\ depth = 0
  /\ visited = <<>>
  /\ result = None
  /\ entry = NoEntry
  /\ ret = Unset

(* Enter a function body: frame.pc names it, frame.path is its path argument. *)
Enter(frame) ==
  /\ pc' = frame.pc
  /\ path' = frame.path
  /\ result' = frame.result
  /\ pointer' = IF frame.pc = "openapi" THEN frame.path ELSE pointer
  /\ depth' = IF frame.pc = "openapi" THEN depth + 1 ELSE depth

(* The caller resolves the pointer string on the document: openapi.resolve(ptr). *)
CallOpenAPI ==
  /\ pc = "idle" /\ ~ret.set
  /\ entry' = [kind |-> "path", node |-> NoNode]
  /\ Enter(Call("openapi", ptr))
  /\ UNCHANGED <<openapi, ty, ptr, visited, ret>>

(* The body of OpenAPI::resolve. *)
OpenAPIStep ==
  /\ pc = "openapi"
  /\ Enter(OpenAPIResolve(openapi, path))
  /\ UNCHANGED <<openapi, ty, ptr, visited, entry, ret>>

(* The body of Components::resolve. *)
ComponentsStep ==
  /\ pc = "components"
  /\ Enter(ComponentsResolve(ty, path))
  /\ UNCHANGED <<openapi, ty, ptr, visited, entry, ret>>

(* The body of IndexMap::resolve; a Reference entry recurses into            *)
(* OpenAPI::resolve, which needs one more stack frame.                      *)
IndexMapStep ==
  /\ pc = "indexmap"
  /\ visited' = Append(visited, path)
  /\ LET frame == IndexMapResolve(CategoryMap(openapi, ty), path)
     IN IF frame.pc = "openapi" /\ depth >= StackLimit
          THEN /\ pc' = "overflow"
               /\ UNCHANGED <<path, pointer, depth, result>>
          ELSE Enter(frame)
  /\ UNCHANGED <<openapi, ty, ptr, entry, ret>>

(* The first call has returned: the caller keeps its outcome. *)
Returned ==
  /\ pc = "done" /\ ~ret.set
  /\ ret' = [set |-> TRUE, result |-> result]
  /\ pc' = "idle"
  /\ path' = <<>>
  /\ pointer' = <<>>
  /\ depth' = 0
  /\ visited' = <<>>
  /\ result' = None
  /\ entry' = NoEntry
  /\ UNCHANGED <<openapi, ty, ptr>>

(* The caller resolves a ReferenceOr<T> node: node.resolve(&openapi). *)
CallReferenceOr ==
  /\ pc = "idle" /\ ret.set
  /\ \E node \in {Reference(ptr)} \cup {Item(x) : x \in Items} :
       /\ entry' = [kind |-> "node", node |-> node]
       /\ Enter(ReferenceOrResolve(node))
  /\ UNCHANGED <<openapi, ty, ptr, visited, ret>>

(* The caller resolves an Option<ReferenceOr<T>>: opt.resolve(&openapi). *)
CallOption ==
  /\ pc = "idle" /\ ret.set
  /\ \E opt \in {NoNode, Reference(ptr)} \cup {Item(x) : x \in Items} :
       /\ entry' = [kind |-> "option", node |-> opt]
       /\ Enter(OptionResolve(opt))
  /\ UNCHANGED <<openapi, ty, ptr, visited, ret>>

Next ==
  \/ CallOpenAPI
  \/ OpenAPIStep
  \/ ComponentsStep
  \/ IndexMapStep
  \/ Returned
  \/ CallReferenceOr
  \/ CallOption

Spec == Init /\ [][Next]_vars

(* ------------------- vocabulary of the properties ---------------------- *)

(* The call under way resolves the pointer string ptr: directly, or as the  *)
(* reference of a node, or of a node inside an Option.                      *)
EntryPointer == entry.kind = "path" \/ entry.node.tag = "Reference"

Lookups == Len(visited)

Entries == Cardinality(DOMAIN CategoryMap(openapi, ty))

(* "#/components/<cat>/": what a pointer into the category cat starts with. *)
CategoryPrefix(cat) == HashSlash \o components \o <<Slash>> \o cat \o <<Slash>>

(* s has the form #/components/<cat>/<name> with a non-empty name. *)
PointsInto(cat, s) ==
  /\ Len(s) > Len(CategoryPrefix(cat))
  /\ SubSeq(s, 1, Len(CategoryPrefix(cat))) = CategoryPrefix(cat)

NameOf(cat, s) == SubSeq(s, Len(CategoryPrefix(cat)) + 1, Len(s))

Found(x) == [kind |-> "found", item |-> x]

Broken == [kind |-> "broken", item |-> 0]

Cyclic == [kind |-> "cycle", item |-> 0]

(* The reference chain that starts at pointer s, read hop by hop in the map *)
(* m of the category cat: the inline item it ends in, or the hop at which   *)
(* it breaks (not a pointer into cat, or no such key), or a cycle when it   *)
(* is still on pointers after more hops than m has entries.                 *)
RECURSIVE Chain(_, _, _, _)
Chain(m, cat, s, hops) ==
  IF ~PointsInto(cat, s) THEN Broken
  ELSE LET k == NameOf(cat, s)
       IN IF k \notin DOMAIN m THEN Broken
          ELSE IF m[k].tag = "Item" THEN Found(m[k].item)
          ELSE IF hops = 0 THEN Cyclic
          ELSE Chain(m, cat, m[k].reference, hops - 1)

(* The chain of ptr in the document, with the category literal of ty. *)
Expected ==
  IF ~openapi.components.some THEN Broken
  ELSE Chain(CategoryMap(openapi, ty), CategoryLiteral(ty), ptr, Entries)

(* The same chain, read with the literal the code compares with. *)
ExpectedByField ==
  IF ~openapi.components.some THEN Broken
  ELSE Chain(CategoryMap(openapi, ty), Stringify(FieldOf(ty)), ptr, Entries)

NoRepeat(s) == \A i, j \in 1..Len(s) : i # j => s[i] # s[j]

NoSlashIn(s) == \A i \in 1..Len(s) : s[i] # Slash

(* The four malformed shapes of a pointer string. *)
NoHashSlash(s) == ~(Len(s) >= 2 /\ s[1] = "#" /\ s[2] = Slash)

AfterHashSlash(s) == SubSeq(s, 3, Len(s))

FirstSegmentOther(s) ==
  \E i \in 1..Len(s) :
    /\ s[i] = Slash
    /\ NoSlashIn(SubSeq(s, 1, i - 1))
    /\ SubSeq(s, 1, i - 1) # components

NoCategorySlash(s) ==
  /\ Len(s) > Len(components)
  /\ SubSeq(s, 1, Len(components) + 1) = components \o <<Slash>>
  /\ NoSlashIn(SubSeq(s, Len(components) + 2, Len(s)))

Malformed(s) ==
  \/ NoHashSlash(s)
  \/ NoSlashIn(AfterHashSlash(s))
  \/ FirstSegmentOther(AfterHashSlash(s))
  \/ NoCategorySlash(AfterHashSlash(s))

(* ------------------------------ properties ----------------------------- *)

(* C1: whenever the chain of ptr in the category map of ty, written with    *)
(* the category literal of ty, ends in Inline(x), the finished resolution   *)
(* of ptr (directly or through a node) has yielded exactly x.               *)
C1_TransitiveChains ==
  (pc = "done" /\ EntryPointer /\ Expected.kind = "found")
    => result = Some(Expected.item)

(* C1 for the entity types whose field name is their category literal. *)
C1_WhereFieldIsLiteral ==
  (pc = "done" /\ EntryPointer /\ Expected.kind = "found"
     /\ Stringify(FieldOf(ty)) = CategoryLiteral(ty))
    => result = Some(Expected.item)

(* C2: for each of the nine category literals, when the map of the category *)
(* holds k -> Inline(x), resolving #/components/<category>/k at the entity  *)
(* type of the category yields x.                                           *)
C2_DirectLookup ==
  \A k \in Keys :
    (/\ pc = "done" /\ EntryPointer
     /\ ptr = Ptr(CategoryLiteral(ty), k)
     /\ openapi.components.some
     /\ k \in DOMAIN CategoryMap(openapi, ty)
     /\ CategoryMap(openapi, ty)[k].tag = "Item")
      => result = Some(CategoryMap(openapi, ty)[k].item)

(* C3: resolving the node Inline(x), alone or inside an Option, returns x   *)
(* at once for every document: OpenAPI::resolve is never entered and no     *)
(* category map is looked into.                                             *)
C3_InlineIdentity ==
  entry.node.tag = "Item"
    => /\ pc = "done"
       /\ result = Some(entry.node.item)
       /\ depth = 0
       /\ visited = <<>>

C3_Witness ==
  /\ pc = "done" /\ entry.kind = "node" /\ entry.node = Item(2)
  /\ openapi.components.some
  /\ ka \in DOMAIN CategoryMap(openapi, ty)
  /\ CategoryMap(openapi, ty)[ka] = Reference(Ptr(CategoryLiteral(ty), ka))

C3_WitnessNoComponents ==
  pc = "done" /\ entry.kind = "option" /\ entry.node = Item(1)
    /\ ~openapi.components.some

(* C4: the key looked up in the category map is the whole tail of the       *)
(* pointer after the category segment, never split again; and the pointer   *)
(* #/components/schemas/a/x resolves exactly when the chain of the key      *)
(* "a/x" ends in an inline item, whatever the map holds under "a".          *)
C4_NoSubPathDescent ==
  /\ pc = "indexmap" => pointer = Ptr(Stringify(FieldOf(ty)), path)
  /\ (pc = "done" /\ EntryPointer /\ ty = "Schema" /\ ptr = Ptr(schemas, kax))
       => /\ visited # <<>> => visited[1] = kax
          /\ result.some <=> (Expected.kind = "found")
          /\ result.some => result.item = Expected.item

C4_Witness ==
  /\ pc = "done" /\ EntryPointer /\ ty = "Schema" /\ ptr = Ptr(schemas, kax)
  /\ ka \in DOMAIN CategoryMap(openapi, ty)
  /\ CategoryMap(openapi, ty)[ka] = Item(1)
  /\ kax \notin DOMAIN CategoryMap(openapi, ty)
  /\ result = None

C4_WitnessKey ==
  /\ pc = "done" /\ EntryPointer /\ ty = "Schema" /\ ptr = Ptr(schemas, kax)
  /\ ka \in DOMAIN CategoryMap(openapi, ty)
  /\ CategoryMap(openapi, ty)[ka] = Item(1)
  /\ result = Some(2)

(* C5: a resolution at entity type ty succeeds only when the pointer has    *)
(* the form #/components/<category literal of ty>/<name>.                   *)
C5_CategoryBinding ==
  (pc = "done" /\ EntryPointer /\ result.some)
    => PointsInto(CategoryLiteral(ty), ptr)

(* C5 with the literal the code compares with: the name of the field. *)
C5_ByField ==
  (pc = "done" /\ EntryPointer /\ result.some)
    => PointsInto(Stringify(FieldOf(ty)), ptr)

(* C6: while OpenAPI::resolve works on a pointer of one of the four         *)
(* malformed shapes, or on a document without components, the lookup in a   *)
(* category map is never reached (nor Components::resolve, when there are   *)
(* no components), no key has been looked up on behalf of the caller's      *)
(* pointer, and the call returns None.                                      *)
C6_MalformedOrNoContainer ==
  (depth >= 1 /\ (Malformed(pointer) \/ ~openapi.components.some))
    => /\ pc \in {"openapi", "components", "done"}
       /\ ~openapi.components.some => pc # "components"
       /\ pc = "done" => result = None
       /\ depth = 1 => visited = <<>>

C6_Witness ==
  /\ pc = "done" /\ depth = 1 /\ NoHashSlash(pointer)
  /\ openapi.components.some
  /\ ka \in DOMAIN CategoryMap(openapi, ty)
  /\ CategoryMap(openapi, ty)[ka].tag = "Item"

C6_WitnessNoComponents ==
  pc = "done" /\ depth = 1 /\ ~Malformed(pointer) /\ ~openapi.components.some

C6_WitnessNested ==
  pc = "done" /\ depth = 2 /\ Malformed(pointer)

C6_WitnessNoCategorySlash ==
  pc = "components" /\ NoCategorySlash(AfterHashSlash(pointer))

C6_WitnessFirstSegment ==
  pc = "done" /\ depth = 1 /\ FirstSegmentOther(AfterHashSlash(pointer))

C6_WitnessNoSlash ==
  pc = "done" /\ depth = 1 /\ ~NoHashSlash(pointer) /\ NoSlashIn(AfterHashSlash(pointer))

(* C7: when the chain of ptr breaks at some hop (a key that is missing, a   *)
(* pointer that is malformed or that names another category than that of    *)
(* ty), the finished resolution has yielded None.                           *)
C7_ShortCircuit ==
  (pc = "done" /\ EntryPointer /\ Expected.kind = "broken") => result = None

(* C7 with the literal the code compares with. *)
C7_ByField ==
  (pc = "done" /\ EntryPointer /\ ExpectedByField.kind = "broken") => result = None

(* C8: on a document whose chain of ptr is a cycle the resolution does not  *)
(* recurse until the stack overflows.                                       *)
C8_CycleSafety == Expected.kind = "cycle" => pc # "overflow"

(* C9 as stated: a resolution that never looks a key up twice does not      *)
(* overflow the stack and performs at most as many lookups as the category  *)
(* map has entries.                                                         *)
C9_LookupsAtMostEntries ==
  NoRepeat(visited) => (pc # "overflow" /\ Lookups <= Entries)

(* C9 amended: at most one lookup more than the map has entries; every      *)
(* lookup but the last found a Reference, and a finished resolution whose   *)
(* last lookup found an inline item has yielded that item, any other None.  *)
C9_LookupsAtMostEntriesPlusOne ==
  NoRepeat(visited) =>
    /\ pc # "overflow"
    /\ Lookups <= Entries + 1
    /\ \A i \in 1..(Lookups - 1) :
         /\ visited[i] \in DOMAIN CategoryMap(openapi, ty)
         /\ CategoryMap(openapi, ty)[visited[i]].tag = "Reference"
    /\ (pc = "done" /\ Lookups >= 1) =>
         LET e == IndexMapGet(CategoryMap(openapi, ty), visited[Lookups])
         IN result = IF e.tag = "Item" THEN Some(e.item) ELSE None

C9_Witness ==
  /\ pc = "done" /\ NoRepeat(visited)
  /\ Entries = 2 /\ Lookups = 3

(* C10: resolving the node Pointer(ptr), alone or inside an Option, ends    *)
(* with the outcome that resolving the string ptr on the document ended     *)
(* with; an absent Option yields None and a present one the outcome of its  *)
(* node.                                                                    *)
C10_EntryPointEquivalence ==
  (pc = "done" /\ ret.set) =>
    /\ entry.node.tag = "Reference" => result = ret.result
    /\ (entry.kind = "option" /\ entry.node = NoNode) => result = None
    /\ entry.node.tag = "Item" => result = Some(entry.node.item)

C10_Witness ==
  /\ pc = "done" /\ ret.set /\ entry.kind = "option"
  /\ entry.node.tag = "Reference"
  /\ result.some /\ Lookups >= 2

C10_WitnessNode ==
  /\ pc = "done" /\ ret.set /\ entry.kind = "node"
  /\ entry.node.tag = "Reference" /\ result = Some(2)

C10_WitnessAbsent ==
  pc = "done" /\ ret.set /\ entry.kind = "option" /\ entry.node = NoNode

====
